---- MODULE Spec2Model ----
(***************************************************************************)
(* Model of the translation tracker of wiki-update-tracker                 *)
(* (src/src/tracker.py): a git history of file trees, the tracker's path   *)
(* map built by put(), and the classification pass track().                *)
(*                                                                         *)
(* Scope of the history model: a single branch with linear history         *)
(* (commit i has the single parent i-1, commit 1 is the root revision);    *)
(* the working directory is a clean checkout of the head commit.           *)
(***************************************************************************)
EXTENDS Integers, Sequences, FiniteSets, TLC

(***************************************************************************)
(* Bounds                                                                  *)
(***************************************************************************)
MaxCommits == 4

(***************************************************************************)
(* Paths are sequences of path components, relative to the repository.     *)
(***************************************************************************)
Docs == <<"docs">>
DocsFr == <<"docs", "fr">>
Doc == <<"docs", "doc.md">>
Old == <<"docs", "old.md">>
FrDoc == <<"docs", "fr", "doc.md">>
FrOld == <<"docs", "fr", "old.md">>

OrigPaths == {Doc, Old}
TransPaths == {FrDoc, FrOld}
Paths == OrigPaths \cup TransPaths

(***************************************************************************)
(* File contents.  A blob is named by an opaque identifier; ContentOf      *)
(* gives the bytes behind it as a sequence of lines, every line but        *)
(* possibly the last being followed by a line terminator.                  *)
(***************************************************************************)
NoBlob == "None"

Doc10Lines == <<"l1", "l2", "l3", "l4", "l5", "l6", "l7", "l8", "l9", "l10">>
Doc12Lines == <<"n1", "n2", "l1", "l2", "l3", "l4", "l5", "l6", "l7", "l8", "l9", "l10">>
StubLines == <<"---", "tbi", "---", "stub">>
DocTbiLines == <<"---", "tbi", "---">> \o Doc10Lines
OtherHdrLines == <<"---", "other", "---", "text">>
BadHdrLines == <<"---", "bad", "---", "text">>
BinaryLines == <<"bytes">>
ShortLines == <<"s1">>
OneLineLines == <<"o1">>
TwoNlLines == <<"t1", "t2">>

ContentOf(b) ==
    CASE b = "Doc10" -> [lines |-> Doc10Lines, eofnl |-> FALSE]
      [] b = "Doc12" -> [lines |-> Doc12Lines, eofnl |-> FALSE]
      [] b = "Stub" -> [lines |-> StubLines, eofnl |-> TRUE]
      [] b = "DocTbi" -> [lines |-> DocTbiLines, eofnl |-> FALSE]
      [] b = "OtherHdr" -> [lines |-> OtherHdrLines, eofnl |-> TRUE]
      [] b = "BadHdr" -> [lines |-> BadHdrLines, eofnl |-> TRUE]
      [] b = "Binary" -> [lines |-> BinaryLines, eofnl |-> FALSE]
      [] b = "Short" -> [lines |-> ShortLines, eofnl |-> TRUE]
      [] b = "Empty" -> [lines |-> <<>>, eofnl |-> FALSE]
      [] b = "OneLine" -> [lines |-> OneLineLines, eofnl |-> FALSE]
      [] b = "TwoNl" -> [lines |-> TwoNlLines, eofnl |-> TRUE]

Blobs == {"Doc10", "Doc12", "Stub", "DocTbi", "OtherHdr", "BadHdr", "Binary", "Short",
          "Empty", "OneLine", "TwoNl"}

\* the contents whose bytes are not text in the encoding of the parser
Undecodable == {"Binary"}

\* the contents a revision may write to a path
BlobsFor(p) ==
    CASE p = Doc -> {"Doc10", "Doc12"}
      [] p = FrDoc -> {"Doc10", "Stub"}
      [] p = Old -> {"Short"}
      [] p = FrOld -> {"Short"}

KnownTags == {"fr", "en"}
LanguageOf(tag) == CASE tag = "fr" -> "French" [] tag = "en" -> "English"
Master == "master"

VARIABLES
    commits,    \* the history: commits[i] is the file tree of revision i
    map,        \* TranslationTracker.map, in insertion order
    tracks,     \* the list returned by the last track() of this run
    raised,     \* name of the exception that ended the run, "" if none
    pc,         \* position of the run: "put", "put_failed", "tracked", "track_failed",
                \* "generate", "stubbed", "copied", "generate_failed"
                \* "finished", "instructed", "instructed_again"
    gitter,     \* the GitUpdater of the run, NoGitter before it is constructed
    head,       \* name of the active branch of the local repository, commits
                \* being the history of that branch
    github,     \* the GitHub repository: pull requests, issues, project cards
    calls,      \* the requests the run has sent to GitHub and to the remote
    ret         \* the value the last call of finish or of an instructor returned

vars == <<commits, map, tracks, raised, pc, gitter, head, github, calls, ret>>

\* what the tracker and the generator's local steps leave alone
remote == <<head, github, calls, ret>>

\* repo.active_branch.name
BranchName == head

NoGitter ==
    [heap |-> <<>>, tracks |-> <<>>, commits |-> <<>>, starting_branch |-> "", base |-> 0]

\* a GitHub repository without pull request, issue or card; number is the
\* last number given to an issue or a pull request
NoGithub == [number |-> 0, pulls |-> <<>>, issues |-> <<>>, cards |-> <<>>]

Only(S) == CHOOSE x \in S : TRUE

Max2(a, b) == IF a >= b THEN a ELSE b

SetMax(S) == CHOOSE x \in S : \A y \in S : y <= x

IsPrefix(d, p) == Len(d) < Len(p) /\ SubSeq(p, 1, Len(d)) = d

Name(p) == p[Len(p)]

(***************************************************************************)
(* The history store                                                       *)
(***************************************************************************)
\* repo.active_branch.commit
active_commit == Len(commits)

\* the working directory: a clean checkout of the active commit
WorkTree == commits[active_commit]

\* the single parent of a revision, 0 for the root revision
Parent(c) == c - 1

\* commit.tree[path]: the blob of path in revision c, NoBlob if absent
TreeBlob(c, path) ==
    IF c \in 1..Len(commits) /\ path \in DOMAIN commits[c]
    THEN commits[c][path]
    ELSE NoBlob

\* the first revision of a walk over the revisions S, 0 when S is empty
FirstOf(S) == IF S = {} THEN 0 ELSE SetMax(S)

\* repo.iter_commits(rev=commit, paths=path, max_count=1): the nearest
\* revision, from rev backwards, that changed path; 0 when there is none
iter_commits(rev, path) ==
    FirstOf({i \in 1..rev : TreeBlob(i, path) # TreeBlob(Parent(i), path)})

\* commit.iter_parents(): every ancestor of a revision, itself excluded
iter_parents(c) == 1..(c - 1)

\* the change record of a path whose blob was a_blob and is b_blob.  The
\* path limits the comparison before any rename detection, so a renamed
\* file shows as created under its new name and deleted under its old one.
DiffOf(a_blob, b_blob, path) ==
    [exists |-> a_blob # b_blob,
     new_file |-> a_blob = NoBlob /\ b_blob # NoBlob,
     deleted_file |-> a_blob # NoBlob /\ b_blob = NoBlob,
     copied_file |-> FALSE,
     renamed_file |-> FALSE,
     rename_from |-> <<>>,
     rename_to |-> <<>>,
     b_path |-> path,
     b_blob |-> b_blob]

\* a.diff(b, paths=path): the change record of path between two revisions
DiffEntry(a, b, path) == DiffOf(TreeBlob(a, path), TreeBlob(b, path), path)

(***************************************************************************)
(* GitFile                                                                 *)
(***************************************************************************)
NoFile ==
    [path |-> <<>>, no_trace |-> TRUE, commit |-> 0, new_file |-> FALSE,
     copied_file |-> FALSE, renamed_file |-> FALSE, rename_from |-> <<>>,
     rename_to |-> <<>>, deleted_file |-> FALSE, blob |-> NoBlob]

\* GitFile.__init__ after the diff d of the changer commit c with its parent
GitFileDiff(path, c, d) ==
    [path |-> IF d.renamed_file THEN d.b_path ELSE path,
     no_trace |-> FALSE,
     commit |-> c,
     new_file |-> d.new_file,
     copied_file |-> d.copied_file,
     renamed_file |-> d.renamed_file,
     rename_from |-> IF d.renamed_file THEN d.rename_from ELSE <<>>,
     rename_to |-> IF d.renamed_file THEN d.rename_to ELSE <<>>,
     deleted_file |-> d.deleted_file,
     blob |-> IF ~d.deleted_file /\ d.b_blob = NoBlob
              THEN TreeBlob(c, IF d.renamed_file THEN d.b_path ELSE path)
              ELSE d.b_blob]

\* GitFile.__init__ after the search of the changer commit c
GitFileAt(path, c) ==
    IF c = 0
    THEN \* the path was not found in git
         [NoFile EXCEPT !.path = path]
    ELSE IF Parent(c) = 0
         THEN \* no parent: the changer commit is the root revision
              [NoFile EXCEPT !.path = path, !.commit = c, !.new_file = TRUE,
                             !.blob = TreeBlob(c, path)]
         ELSE Only({GitFileDiff(path, c, d) : d \in {DiffEntry(Parent(c), c, path)}})

GitFile(path, commit) ==
    Only({GitFileAt(path, c) : c \in {iter_commits(commit, path)}})

\* the number of lines str.splitlines would give
CountSplitLines(content) ==
    Len(content.lines)

\* data.count(b"\n"): the number of line terminators of a content
CountNewlines(content) ==
    IF Len(content.lines) = 0
    THEN 0
    ELSE Len(content.lines) - 1 + (IF content.eofnl THEN 1 ELSE 0)

\* GitFile.cnt_lines: [raises |-> exception name or "", value |-> count]
cnt_lines(f) ==
    IF f.no_trace \/ f.deleted_file
    THEN [raises |-> "NotImplementedError", value |-> -1]
    ELSE IF f.blob = NoBlob
         THEN [raises |-> "ValueError", value |-> -1]
         ELSE [raises |-> "", value |-> CountNewlines(ContentOf(f.blob)) + 1]

\* a TranslationGitFile without the override of __setattr__
setattr_plain(f, name, value) ==
    [raises |-> "", file |-> [f EXCEPT ![name] = value]]

\* TranslationGitFile.__setattr__: [raises |-> exception name or "", file]
setattr(f, name, value) ==
    IF name = "lang_tag"
    THEN IF value \notin KnownTags
         THEN [raises |-> "LanguageTagException", file |-> f]
         ELSE [raises |-> "",
               file |-> [f EXCEPT !.language = LanguageOf(value), !.lang_tag = value]]
    ELSE IF name = "language"
    THEN [raises |-> "NotImplementedError", file |-> f]
    ELSE [raises |-> "", file |-> [f EXCEPT ![name] = value]]

TranslationGitFile(path, lang_tag, commit) ==
    GitFile(path, commit) @@ [lang_tag |-> lang_tag, language |-> LanguageOf(lang_tag)]

(***************************************************************************)
(* has_tbi_header: the front matter of a content is the block between a    *)
(* first line "---" and the next line "---"; the line "tbi" stands for     *)
(* the line HEADER_TBI_KEY: HEADER_TBI_VALUE, the line "other" for the     *)
(* key with another value, the line "bad" for a line that is not YAML.     *)
(***************************************************************************)
FrontMatter(lines) ==
    IF Len(lines) >= 2 /\ lines[1] = "---" /\ \E j \in 2..Len(lines) : lines[j] = "---"
    THEN {lines[k] : k \in {k \in 2..Len(lines) : \A j \in 2..k : lines[j] # "---"}}
    ELSE {}

\* frontmatter.loads of a decodable text with the front matter block fm:
\* the block is loaded as YAML, the error of the loader is not caught
HeaderLoaded(fm) ==
    IF "bad" \in fm
    THEN [raises |-> "YAMLError", value |-> FALSE]
    ELSE [raises |-> "", value |-> "tbi" \in fm]

has_tbi_header(blob) ==
    IF blob = NoBlob
    THEN [raises |-> "ValueError", value |-> FALSE]
    ELSE IF blob \in Undecodable
    THEN \* UnicodeDecodeError: not frontmatter type file
         [raises |-> "", value |-> FALSE]
    ELSE HeaderLoaded(FrontMatter(ContentOf(blob).lines))

(***************************************************************************)
(* GitPatch                                                                *)
(***************************************************************************)
\* the lines of a content, each with whether a terminator follows it
TermLines(content) ==
    [i \in 1..Len(content.lines) |->
        <<content.lines[i], i < Len(content.lines) \/ content.eofnl>>]

\* the number of lines a literal diff of a into b leaves unmarked
RECURSIVE LCS(_, _)
LCS(a, b) ==
    IF a = <<>> \/ b = <<>>
    THEN 0
    ELSE IF Head(a) = Head(b)
         THEN 1 + LCS(Tail(a), Tail(b))
         ELSE IF a[Len(a)] = b[Len(b)]
              THEN 1 + LCS(SubSeq(a, 1, Len(a) - 1), SubSeq(b, 1, Len(b) - 1))
              ELSE Max2(LCS(Tail(a), b), LCS(a, Tail(b)))

\* the lines of a blob as the diff sees them, none for an absent file
DiffLines(blob) == IF blob = NoBlob THEN <<>> ELSE TermLines(ContentOf(blob))

NoPatch == [additions |-> -1, deletions |-> -1, changes |-> -1]

\* GitPatch with changes counting the additions only
PatchCountsAdditions(additions, deletions) ==
    [additions |-> additions, deletions |-> deletions,
     changes |-> additions]

\* the counts of GitPatch: the "\n+" and "\n-" markers of the literal diff
PatchCounts(additions, deletions) ==
    [additions |-> additions, deletions |-> deletions,
     changes |-> additions + deletions]

PatchOf(a, b, common) == PatchCounts(Len(b) - common, Len(a) - common)

PatchLines(a, b) == PatchOf(a, b, LCS(a, b))

\* GitPatch.__init__: [raises, patch]
GitPatch(a_file, b_file) ==
    IF a_file.commit = 0
    THEN \* a_commit is None: None has no diff method
         [raises |-> "AttributeError", patch |-> NoPatch]
    ELSE IF ~DiffEntry(a_file.commit, b_file.commit, b_file.path).exists
         THEN [raises |-> "ValueError", patch |-> NoPatch]
         ELSE [raises |-> "",
               patch |-> PatchLines(DiffLines(TreeBlob(a_file.commit, b_file.path)),
                                    DiffLines(TreeBlob(b_file.commit, b_file.path)))]

(***************************************************************************)
(* Translation tracks.  Every track is a record with the fields of all     *)
(* five classes; the fields a class does not define hold NoFile, NoPatch,  *)
(* FALSE or -1.                                                            *)
(***************************************************************************)
TranslationTrack(translation, original, status, branch) ==
    [translation |-> translation, original |-> original, status |-> status,
     branch |-> branch, missing_lines |-> -1, base_original |-> NoFile,
     patch |-> NoPatch, to_rename |-> FALSE, deleted |-> FALSE,
     surplus_lines |-> -1]

\* a constructor's outcome: [raises |-> exception name or "", track |-> ...]
\* missing_lines = original.cnt_lines(), n being the outcome of the count
WithMissingLines(t, n) ==
    [raises |-> n.raises, track |-> [t EXCEPT !.missing_lines = n.value]]

ToCreateTranslationTrack(translation, original, branch) ==
    WithMissingLines(TranslationTrack(translation, original, "To Create", branch),
                     cnt_lines(original))

ToInitTranslationTrack(translation, original, branch) ==
    WithMissingLines(TranslationTrack(translation, original, "To Initialize", branch),
                     cnt_lines(original))

\* patch = GitPatch(base_original, original), p being its outcome
WithPatch(t, base_original, p) ==
    [raises |-> p.raises,
     track |-> [t EXCEPT !.to_rename = (Name(t.translation.path) # Name(t.original.path)),
                         !.base_original = base_original,
                         !.patch = p.patch]]

WithBaseOriginal(t, base_original) ==
    WithPatch(t, base_original, GitPatch(base_original, t.original))

ToUpdateTranslationTrack(translation, original, branch) ==
    WithBaseOriginal(
        TranslationTrack(translation, original, "To Update", branch),
        GitFile(IF original.renamed_file THEN original.rename_from ELSE original.path,
                translation.commit))

UpToDateTranslationTrack(translation, original, branch) ==
    [raises |-> "",
     track |-> TranslationTrack(translation, original, "Up-To-Date", branch)]

\* surplus_lines = translation.cnt_lines(), n being the outcome of the count
WithSurplusLines(t, n) ==
    [raises |-> n.raises,
     track |-> [t EXCEPT !.deleted = t.original.deleted_file,
                         !.surplus_lines = n.value]]

OrphanTranslationTrack(translation, original, branch) ==
    WithSurplusLines(TranslationTrack(translation, original, "Orphan", branch),
                     cnt_lines(translation))

(***************************************************************************)
(* TranslationTracker.track                                                *)
(***************************************************************************)
\* the branch the if/elif chain of track() takes for a resolved pair, hdr
\* being the outcome of has_tbi_header(translation.blob)
BranchWith(original, translation, hdr) ==
    IF original.no_trace /\ translation.no_trace
    THEN "skip"
    ELSE IF original.no_trace \/ original.deleted_file
    THEN "Orphan"
    ELSE IF translation.no_trace \/ translation.deleted_file
    THEN "To Create"
    ELSE IF hdr.raises # ""
    THEN "raise"
    ELSE IF hdr.value
    THEN "To Initialize"
    ELSE IF \/ translation.commit = original.commit
            \/ original.commit \in iter_parents(translation.commit)
    THEN "Up-To-Date"
    ELSE "To Update"

Branch(original, translation) ==
    BranchWith(original, translation, has_tbi_header(translation.blob))

\* the outcome of the constructor of the branch taken
Construct(original, translation, branch) ==
    CASE branch = "Orphan" ->
            OrphanTranslationTrack(translation, original, BranchName)
      [] branch = "To Create" ->
            ToCreateTranslationTrack(translation, original, BranchName)
      [] branch = "To Initialize" ->
            ToInitTranslationTrack(translation, original, BranchName)
      [] branch = "Up-To-Date" ->
            UpToDateTranslationTrack(translation, original, BranchName)
      [] branch = "To Update" ->
            ToUpdateTranslationTrack(translation, original, BranchName)
      [] branch = "raise" ->
            [raises |-> has_tbi_header(translation.blob).raises]

\* what one pass of the loop body leaves:
\* [kind |-> "skip" | "raise" | "track", branch, raises, track]
Outcome(branch, r) ==
    IF r.raises # ""
    THEN [kind |-> "raise", branch |-> branch, raises |-> r.raises]
    ELSE [kind |-> "track", branch |-> branch, raises |-> "", track |-> r.track]

TrackBranch(original, translation, branch) ==
    IF branch = "skip"
    THEN [kind |-> "skip", branch |-> branch, raises |-> ""]
    ELSE Outcome(branch, Construct(original, translation, branch))

TrackFiles(original, translation) ==
    TrackBranch(original, translation, Branch(original, translation))

\* the body of the loop of track() for one entry of the map
TrackPair(e, commit) ==
    IF e.lang_tag \notin KnownTags
    THEN [kind |-> "raise", branch |-> "none", raises |-> "LanguageTagException"]
    ELSE TrackFiles(GitFile(e.original, commit),
                    TranslationGitFile(e.translation, e.lang_tag, commit))

\* the loop of track() over the entries m, acc being the list so far and
\* r the outcome of the loop body for the entry before m
RECURSIVE TrackLoop(_, _, _)
RECURSIVE TrackStep(_, _, _, _)
TrackStep(m, commit, acc, r) ==
    IF r.kind = "raise"
    THEN [raises |-> r.raises, tracks |-> <<>>]
    ELSE TrackLoop(m, commit, IF r.kind = "skip" THEN acc ELSE Append(acc, r.track))

TrackLoop(m, commit, acc) ==
    IF m = <<>>
    THEN [raises |-> "", tracks |-> acc]
    ELSE TrackStep(Tail(m), commit, acc, TrackPair(Head(m), commit))

track == TrackLoop(map, active_commit, <<>>)

(***************************************************************************)
(* TranslationTracker.put                                                  *)
(***************************************************************************)
\* Path.is_file / Path.is_dir in the working directory
is_file(path) == path \in DOMAIN WorkTree

is_dir(path) == \E f \in DOMAIN WorkTree : IsPrefix(path, f)

\* fetch_files with a filter matching every file: the files below the
\* directory path, but those below one of the ignored directories
fetch_files(path, ignore_dirs) ==
    {f \in DOMAIN WorkTree :
        IsPrefix(path, f) /\ ~\E g \in ignore_dirs : IsPrefix(g, f)}

\* the orders in which a directory scan may yield a set of files
Orders(S) ==
    {o \in [1..Cardinality(S) -> S] : \A i, j \in DOMAIN o : i # j => o[i] # o[j]}

replace_parent(path, parent, new_parent) ==
    new_parent \o SubSeq(path, Len(parent) + 1, Len(path))

HasKey(m, translation, lang_tag) ==
    \E i \in DOMAIN m : m[i].translation = translation /\ m[i].lang_tag = lang_tag

\* put() without the membership test: a later writer replaces the original
PutEntryOverwrite(m, translation, lang_tag, original) ==
    IF HasKey(m, translation, lang_tag)
    THEN [i \in DOMAIN m |->
            IF m[i].translation = translation /\ m[i].lang_tag = lang_tag
            THEN [m[i] EXCEPT !.original = original]
            ELSE m[i]]
    ELSE Append(m, [translation |-> translation, lang_tag |-> lang_tag,
                    original |-> original])

\* if (translation, lang_tag) not in self.map: self.map[...] = original
PutEntry(m, translation, lang_tag, original) ==
    IF HasKey(m, translation, lang_tag)
    THEN m
    ELSE Append(m, [translation |-> translation, lang_tag |-> lang_tag,
                    original |-> original])

\* first loop of put(): map translations from the found original paths
RECURSIVE PutOriginals(_, _, _, _, _)
PutOriginals(m, originals, translation_path, original_path, lang_tag) ==
    IF originals = <<>>
    THEN m
    ELSE PutOriginals(
             PutEntry(m, replace_parent(Head(originals), original_path, translation_path),
                      lang_tag, Head(originals)),
             Tail(originals), translation_path, original_path, lang_tag)

\* second loop of put(): map the found translation paths to originals
RECURSIVE PutTranslations(_, _, _, _, _)
PutTranslations(m, translations, translation_path, original_path, lang_tag) ==
    IF translations = <<>>
    THEN m
    ELSE PutTranslations(
             PutEntry(m, Head(translations), lang_tag,
                      replace_parent(Head(translations), translation_path, original_path)),
             Tail(translations), translation_path, original_path, lang_tag)

PutLoops(originals, translations, translation_path, original_path, lang_tag) ==
    PutTranslations(
        PutOriginals(map, originals, translation_path, original_path, lang_tag),
        translations, translation_path, original_path, lang_tag)

\* the calls of put() a run makes: a directory of translations against the
\* directory of originals (the translations ignored among the originals,
\* as main.py does), or a single translation file against its original
PutArgs ==
    {[translation_path |-> DocsFr, original_path |-> Docs, lang_tag |-> "fr",
      ignore_dirs |-> {DocsFr}],
     [translation_path |-> FrDoc, original_path |-> Doc, lang_tag |-> "fr",
      ignore_dirs |-> {}]}

\* put() without the comparison of the two paths
PutUnchecked(a) ==
    /\ pc = "put"
    /\ IF is_file(a.original_path)
       THEN /\ map' = PutLoops(<<a.original_path>>, <<a.translation_path>>,
                               a.translation_path, a.original_path, a.lang_tag)
            /\ UNCHANGED <<raised, pc>>
       ELSE IF is_dir(a.original_path)
       THEN /\ \E originals \in Orders(fetch_files(a.original_path, a.ignore_dirs)),
                  translations \in Orders(fetch_files(a.translation_path, {})) :
                   map' = PutLoops(originals, translations,
                                   a.translation_path, a.original_path, a.lang_tag)
            /\ UNCHANGED <<raised, pc>>
       ELSE /\ raised' = "ValueError"
            /\ pc' = "put_failed"
            /\ UNCHANGED map
    /\ UNCHANGED <<commits, tracks, gitter>>
    /\ UNCHANGED remote

Put(a) ==
    /\ pc = "put"
    /\ IF a.translation_path = a.original_path
       THEN /\ raised' = "SamePathException"
            /\ pc' = "put_failed"
            /\ UNCHANGED map
       ELSE IF is_file(a.original_path)
       THEN /\ map' = PutLoops(<<a.original_path>>, <<a.translation_path>>,
                               a.translation_path, a.original_path, a.lang_tag)
            /\ UNCHANGED <<raised, pc>>
       ELSE IF is_dir(a.original_path)
       THEN /\ \E originals \in Orders(fetch_files(a.original_path, a.ignore_dirs)),
                  translations \in Orders(fetch_files(a.translation_path, {})) :
                   map' = PutLoops(originals, translations,
                                   a.translation_path, a.original_path, a.lang_tag)
            /\ UNCHANGED <<raised, pc>>
       ELSE /\ raised' = "ValueError"
            /\ pc' = "put_failed"
            /\ UNCHANGED map
    /\ UNCHANGED <<commits, tracks, gitter>>
    /\ UNCHANGED remote

(***************************************************************************)
(* The run: main.py builds the map with put(), then calls track() once;    *)
(* an exception leaving track() ends the run without a list of tracks.     *)
(***************************************************************************)
\* tracks = tracker.track(), r being what track() leaves
Tracked(r) ==
    /\ tracks' = r.tracks
    /\ raised' = r.raises
    /\ pc' = IF r.raises = "" THEN "tracked" ELSE "track_failed"

Track ==
    /\ pc = "put"
    /\ Tracked(track)
    /\ UNCHANGED <<commits, map, gitter>>
    /\ UNCHANGED remote

(***************************************************************************)
(* The environment: between two runs a new revision is committed; the      *)
(* next run starts with a new tracker.                                     *)
(***************************************************************************)
Trees ==
    UNION {{t \in [S -> Blobs] : \A p \in S : t[p] \in BlobsFor(p)} :
           S \in SUBSET Paths}

WriteFile(tree, path, blob) ==
    [q \in DOMAIN tree \cup {path} |-> IF q = path THEN blob ELSE tree[q]]

RemoveFile(tree, path) == [q \in DOMAIN tree \ {path} |-> tree[q]]

NewRun(tree) ==
    /\ Len(commits) < MaxCommits
    /\ commits' = Append(commits, tree)
    /\ map' = <<>>
    /\ tracks' = <<>>
    /\ raised' = ""
    /\ pc' = "put"
    /\ gitter' = NoGitter
    /\ calls' = <<>>
    /\ ret' = <<>>
    /\ UNCHANGED <<head, github>>

\* a revision adding or editing one file
CommitWrite(path, blob) ==
    /\ TreeBlob(active_commit, path) # blob
    /\ NewRun(WriteFile(WorkTree, path, blob))

\* a revision deleting one file
CommitDelete(path) ==
    /\ path \in DOMAIN WorkTree
    /\ NewRun(RemoveFile(WorkTree, path))

\* a revision renaming one file (git mv)
CommitRename(from, to) ==
    /\ from \in DOMAIN WorkTree
    /\ to \notin DOMAIN WorkTree
    /\ NewRun(WriteFile(RemoveFile(WorkTree, from), to, WorkTree[from]))

Init ==
    /\ commits \in {<<t>> : t \in Trees}
    /\ map = <<>>
    /\ tracks = <<>>
    /\ raised = ""
    /\ pc = "put"
    /\ gitter = NoGitter
    /\ head = Master
    /\ github = NoGithub
    /\ calls = <<>>
    /\ ret = <<>>

Next ==
    \/ \E a \in PutArgs : Put(a)
    \/ Track
    \/ \E path \in Paths : \E blob \in BlobsFor(path) : CommitWrite(path, blob)
    \/ \E path \in Paths : CommitDelete(path)
    \/ \E from \in OrigPaths, to \in OrigPaths : CommitRename(from, to)

Spec == Init /\ [][Next]_vars

(***************************************************************************)
(* What the history says about a path at the active commit, read from the  *)
(* trees of the revisions and not from a GitFile.                          *)
(***************************************************************************)
\* the path is in the tree of some revision up to the active commit
HasTrace(path) == \E i \in 1..active_commit : TreeBlob(i, path) # NoBlob

\* the path is present with content at the active commit
Present(path) == TreeBlob(active_commit, path) # NoBlob

\* the most recent change to the path was its deletion
Deleted(path) == HasTrace(path) /\ ~Present(path)

\* the revision that last changed the path
LastChange(path) == iter_commits(active_commit, path)

\* the content of the path declares the not-started sentinel in its header
Marked(path) ==
    Present(path) /\ "tbi" \in FrontMatter(ContentOf(TreeBlob(active_commit, path)).lines)

LineCount(path) == CountNewlines(ContentOf(TreeBlob(active_commit, path))) + 1

\* track() has been called in this run
Ran == pc \in {"tracked", "track_failed"}

\* the records of the returned list that belong to an entry of the map
TracksOf(e) ==
    {j \in DOMAIN tracks :
        /\ tracks[j].translation.path = e.translation
        /\ tracks[j].translation.lang_tag = e.lang_tag}

TrackOf(e) == tracks[CHOOSE j \in TracksOf(e) : TRUE]

HasStatus(e, status) ==
    Cardinality(TracksOf(e)) = 1 /\ TrackOf(e).status = status

Status == {"To Create", "To Initialize", "Up-To-Date", "To Update", "Orphan"}

(***************************************************************************)
(* Claims                                                                  *)
(***************************************************************************)

\* C1: a mapped pair whose original and translation are both present with
\* content at the active commit, the translation carrying no not-started
\* marker, is classified Up-To-Date if the translation's last-change
\* revision is the original's or a descendant of it, and To Update
\* otherwise.
C1_UpToDateIffDescendant ==
    Ran =>
        \A i \in DOMAIN map :
            LET e == map[i]
            IN (Present(e.original) /\ Present(e.translation) /\ ~Marked(e.translation))
               => IF \/ LastChange(e.translation) = LastChange(e.original)
                     \/ LastChange(e.original) \in iter_parents(LastChange(e.translation))
                  THEN HasStatus(e, "Up-To-Date")
                  ELSE HasStatus(e, "To Update")

\* C2: when the root revision adds the original and the translation
\* together and a second revision makes an ordinary edit of the
\* translation only, track() at the second revision classifies the pair
\* Up-To-Date.
C2_RootThenTranslationEdit ==
    (Ran /\ active_commit = 2) =>
        \A i \in DOMAIN map :
            LET e == map[i]
            IN (/\ TreeBlob(1, e.original) # NoBlob
                /\ TreeBlob(1, e.translation) # NoBlob
                /\ TreeBlob(2, e.original) = TreeBlob(1, e.original)
                /\ TreeBlob(2, e.translation) # TreeBlob(1, e.translation)
                /\ Present(e.translation)
                /\ ~Marked(e.translation))
               => HasStatus(e, "Up-To-Date")

\* C3: end to end over the growing history R1..R4 of the single pair
\* (docs/doc.md, docs/fr/doc.md): R1 holds the 10-line original alone and
\* the pair is To Create with missing_lines 10; R2 adds the translation as
\* a verbatim copy and the pair is Up-To-Date; R3 adds two lines to the
\* original and the pair is To Update with a patch of 2 additions, 0
\* deletions, 2 changes; R4 deletes the original and the pair is Orphan
\* with the deleted flag set.
E2EPair == [translation |-> FrDoc, lang_tag |-> "fr", original |-> Doc]
E2E_R1 == (Doc :> "Doc10")
E2E_R2 == (Doc :> "Doc10") @@ (FrDoc :> "Doc10")
E2E_R3 == (Doc :> "Doc12") @@ (FrDoc :> "Doc10")
E2E_R4 == (FrDoc :> "Doc10")

C3_EndToEnd ==
    (Ran /\ map = <<E2EPair>>) =>
        /\ commits = <<E2E_R1>> =>
              /\ HasStatus(E2EPair, "To Create")
              /\ TrackOf(E2EPair).missing_lines = 10
        /\ commits = <<E2E_R1, E2E_R2>> =>
              HasStatus(E2EPair, "Up-To-Date")
        /\ commits = <<E2E_R1, E2E_R2, E2E_R3>> =>
              /\ HasStatus(E2EPair, "To Update")
              /\ TrackOf(E2EPair).patch = [additions |-> 2, deletions |-> 0, changes |-> 2]
        /\ commits = <<E2E_R1, E2E_R2, E2E_R3, E2E_R4>> =>
              /\ HasStatus(E2EPair, "Orphan")
              /\ TrackOf(E2EPair).deleted

\* C4: track() omits a mapped pair exactly when neither its original nor
\* its translation has a trace in history at the active commit; every
\* other pair contributes exactly one record with one of the five
\* statuses, and there are never more records than mapped pairs.
C4_DroppedIffNoTrace ==
    Ran =>
        /\ \A i \in DOMAIN map :
              LET e == map[i]
              IN IF ~HasTrace(e.original) /\ ~HasTrace(e.translation)
                 THEN TracksOf(e) = {}
                 ELSE Cardinality(TracksOf(e)) = 1 /\ TrackOf(e).status \in Status
        /\ Len(tracks) <= Len(map)

\* C5: a translation present with content whose header declares the
\* not-started sentinel is classified To Initialize whenever the original
\* is present with content, whatever the ancestry of the two last-change
\* revisions.
C5_MarkerHasPriority ==
    Ran =>
        \A i \in DOMAIN map :
            LET e == map[i]
            IN (Marked(e.translation) /\ Present(e.original))
               => HasStatus(e, "To Initialize")

\* C6: whenever the original has no trace in history or was last deleted,
\* and the pair is not dropped, track() produces an Orphan record whatever
\* the state of the translation; its deleted flag tells whether the
\* original was deleted and surplus_lines is the line count of the
\* translation's content.
C6_OrphanWhateverTranslation ==
    Ran =>
        \A i \in DOMAIN map :
            LET e == map[i]
            IN (/\ ~HasTrace(e.original) \/ Deleted(e.original)
                /\ ~(~HasTrace(e.original) /\ ~HasTrace(e.translation)))
               => /\ HasStatus(e, "Orphan")
                  /\ TrackOf(e).deleted = Deleted(e.original)
                  /\ Present(e.translation)
                        => TrackOf(e).surplus_lines = LineCount(e.translation)

\* C7: whenever the original is present with content and the translation
\* has no trace in history or was last deleted, track() produces a To
\* Create record whose missing_lines is the line count of the original.
C7_ToCreateWhenTranslationMissing ==
    Ran =>
        \A i \in DOMAIN map :
            LET e == map[i]
            IN (/\ Present(e.original)
                /\ ~HasTrace(e.translation) \/ Deleted(e.translation))
               => /\ HasStatus(e, "To Create")
                  /\ TrackOf(e).missing_lines = LineCount(e.original)

\* C8: if revision R renamed the original from A to B and the translation
\* was last changed before R, the pair is classified To Update with
\* base_original.path = A and original.path = B.  (Stated for a
\* translation whose last change is a revision with a parent, so that the
\* rename alone decides the outcome.)
RenamedAt(r, from, to) ==
    /\ r \in 2..active_commit
    /\ from # to
    /\ TreeBlob(r - 1, from) # NoBlob
    /\ TreeBlob(r, from) = NoBlob
    /\ TreeBlob(r - 1, to) = NoBlob
    /\ TreeBlob(r, to) = TreeBlob(r - 1, from)

C8_RenamePropagation ==
    Ran =>
        \A i \in DOMAIN map : \A from \in Paths : \A r \in 2..active_commit :
            LET e == map[i]
            IN (/\ RenamedAt(r, from, e.original)
                /\ LastChange(e.original) = r
                /\ Present(e.translation)
                /\ ~Marked(e.translation)
                /\ LastChange(e.translation) < r
                /\ Parent(LastChange(e.translation)) # 0)
               => /\ HasStatus(e, "To Update")
                  /\ TrackOf(e).base_original.path = from
                  /\ TrackOf(e).original.path = e.original

\* C9: a failure while resolving base_original or computing the patch of
\* one pair leaves every other mapped pair classified, its record returned
\* by the same pass.
\* the pair fails in the To Update branch of track()
FailsInUpdate(r) == r.kind = "raise" /\ r.branch = "To Update"

\* the record of a pair that classifies is in the returned list
Returned(r) == r.kind = "track" => \E j \in DOMAIN tracks : tracks[j] = r.track

C9_FailureIsolatedToPair ==
    (Ran /\ \E k \in DOMAIN map : FailsInUpdate(TrackPair(map[k], active_commit)))
        => \A i \in DOMAIN map : Returned(TrackPair(map[i], active_commit))

\* C10: every file resolved by GitFile is in exactly one of the states
\* does-not-exist, deleted, present-with-content; its blob is set exactly
\* when it is present with content and its commit is absent exactly when
\* it does not exist in history.
GitFileStates(f) ==
    /\ ~(f.no_trace /\ f.deleted_file)
    /\ (f.blob # NoBlob) <=> (~f.no_trace /\ ~f.deleted_file)
    /\ (f.commit = 0) <=> f.no_trace

C10_GitFileStates ==
    Ran =>
        \A j \in DOMAIN tracks :
            /\ GitFileStates(tracks[j].original)
            /\ GitFileStates(tracks[j].translation)
            /\ tracks[j].status = "To Update" => GitFileStates(tracks[j].base_original)

(***************************************************************************)
(* put() as a library call: any caller may pass any paths and any tag.     *)
(* main.py only passes tags its argument parser has looked up, the method  *)
(* itself is public.                                                       *)
(***************************************************************************)
UnknownTag == "xx"

PutCalls ==
    PutArgs \cup
    {[translation_path |-> DocsFr, original_path |-> Docs, lang_tag |-> UnknownTag,
      ignore_dirs |-> {DocsFr}],
     [translation_path |-> Docs, original_path |-> Docs, lang_tag |-> "fr",
      ignore_dirs |-> {}],
     [translation_path |-> FrDoc, original_path |-> Old, lang_tag |-> "fr",
      ignore_dirs |-> {}]}

NextPut ==
    \/ \E a \in PutCalls : Put(a)
    \/ Track

SpecPut == Init /\ [][NextPut]_vars

\* C11: put() called with a language tag that is not in the registry fails
\* with LanguageTagException and adds no entry to the map, so that no entry
\* with an unknown tag is ever in the map and track() never meets one.
C11_UnknownTagRejectedByPut ==
    /\ \A i \in DOMAIN map : map[i].lang_tag \in KnownTags
    /\ pc = "track_failed" => raised # "LanguageTagException"

\* C12: put() raises SamePathException when the translation root equals the
\* original root, and ValueError when the original root is neither a file
\* nor a directory; in both cases the map is left as it was.
PutFailsFast(a) ==
    /\ a.translation_path = a.original_path
          => (raised' = "SamePathException" /\ pc' = "put_failed" /\ map' = map)
    /\ (/\ a.translation_path # a.original_path
        /\ ~is_file(a.original_path)
        /\ ~is_dir(a.original_path))
          => (raised' = "ValueError" /\ pc' = "put_failed" /\ map' = map)

C12_PutFailsFast == [][\A a \in PutCalls : Put(a) => PutFailsFast(a)]_vars

\* a failed put() after a put() that had filled the map
C12_Witness == pc = "put_failed" /\ raised = "ValueError" /\ map # <<>>

\* C13: across any sequence of put() calls the keys (translation path,
\* language tag) of the map are unique and the original of a key never
\* changes once written: first writer wins.
UniqueKeys ==
    \A i, j \in DOMAIN map :
        (map[i].translation = map[j].translation /\ map[i].lang_tag = map[j].lang_tag)
            => i = j

FirstWriterWins ==
    \A i \in DOMAIN map :
        \E j \in DOMAIN map' :
            /\ map'[j].translation = map[i].translation
            /\ map'[j].lang_tag = map[i].lang_tag
            /\ map'[j].original = map[i].original

C13_FirstWriterWins == [](UniqueKeys) /\ [][FirstWriterWins]_vars

\* put() of the file docs/fr/doc.md against docs/old.md wrote the key first;
\* a later put() of the directories, which derives the same key from
\* docs/doc.md, added the key of docs/fr/old.md and left the first entry
C13_Witness ==
    /\ is_file(Doc)
    /\ Len(map) >= 2
    /\ map[1] = [translation |-> FrDoc, lang_tag |-> "fr", original |-> Old]
    /\ \E i \in DOMAIN map :
          map[i] = [translation |-> FrOld, lang_tag |-> "fr", original |-> Old]

(***************************************************************************)
(* generator.GitUpdater.  The updater holds the very list track()          *)
(* returned: gitter.heap holds the track objects of the run in the order   *)
(* of their construction, gitter.tracks the list as references into the    *)
(* heap, gitter.commits the commits the updater recorded.  The variable    *)
(* tracks is the same list read through its references.                    *)
(***************************************************************************)
MaxGenCommits == 3

\* the filenames a list of fnmatch patterns may match
Filenames == {Name(p) : p \in TransPaths}
FilterSets == SUBSET Filenames

\* the contents a stub template may format to
StubTemplates == {"Stub", "Short"}

\* the list self.tracks as main.py reads it
Deref(g) == [j \in DOMAIN g.tracks |-> g.heap[g.tracks[j]]]

translation_fnmatch(t, filters) == Name(t.translation.path) \in filters

\* the indexes create_stubs and create_copies collect in their first loop
Indexes(tr, filters) ==
    {i \in DOMAIN tr : tr[i].status = "To Create" /\ translation_fnmatch(tr[i], filters)}

Rank(S, i) == Cardinality({j \in S : j <= i})

Nth(S, k) == CHOOSE i \in S : Rank(S, i) = k

\* the working tree after the files of the collected tracks are written,
\* blob_of[i] being the content written for the track of index i
WriteFiles(tree, tr, S, blob_of) ==
    [q \in DOMAIN tree \cup {tr[i].translation.path : i \in S} |->
        IF \E i \in S : tr[i].translation.path = q
        THEN blob_of[CHOOSE i \in S : tr[i].translation.path = q]
        ELSE tree[q]]

\* self.tracks[i] = new_track in place of the list's slot only
InstallInPlace(g, S, new) ==
    [g EXCEPT !.heap = [k \in DOMAIN g.heap |->
                           IF \E j \in S : g.tracks[j] = k
                           THEN new[CHOOSE j \in S : g.tracks[j] = k]
                           ELSE g.heap[k]]]

\* self.tracks[i] = new_track for the indexes S in increasing order, new[i]
\* being the track constructed for index i
Install(g, S, new) ==
    [g EXCEPT !.heap = g.heap \o [k \in 1..Cardinality(S) |-> new[Nth(S, k)]],
              !.tracks = [j \in DOMAIN g.tracks |->
                             IF j \in S THEN Len(g.heap) + Rank(S, j)
                             ELSE g.tracks[j]]]

\* self.commits.append(commit)
Record(g, commit) == [g EXCEPT !.commits = Append(g.commits, commit)]

\* GitUpdater.__init__: the branch branch_name, created at HEAD or reset to
\* HEAD, is checked out when it is not the active branch
NewGitUpdater(branch_name) ==
    /\ pc = "tracked"
    /\ gitter' = [heap |-> tracks, tracks |-> [j \in DOMAIN tracks |-> j],
                  commits |-> <<>>, starting_branch |-> head, base |-> Len(commits)]
    /\ head' = branch_name
    /\ pc' = "generate"
    /\ UNCHANGED <<commits, map, tracks, raised, github, calls, ret>>

\* StubTemplate.format(track): special_args reads track.translation.track,
\* an attribute no TranslationGitFile has
StubTemplateFormat(t, stub_template) ==
    [raises |-> "AttributeError", content |-> NoBlob]

\* TranslationGitFile(track.translation.path, track.translation.lang_tag, commit)
NewTranslation(t, commit) ==
    TranslationGitFile(t.translation.path, t.translation.lang_tag, commit)

NewToInit(t, commit) ==
    ToInitTranslationTrack(NewTranslation(t, commit), t.original, BranchName).track

NewUpToDate(t, commit) ==
    UpToDateTranslationTrack(NewTranslation(t, commit), t.original, BranchName).track

\* the index add, the commit and the second loop of create_stubs and of
\* create_copies: old is the list before the call, g the updater, S the
\* collected indexes, blob_of the contents written, status the new status
Generate(old, g, S, blob_of, status) ==
    /\ commits' = Append(commits, WriteFiles(WorkTree, old, S, blob_of))
    /\ \E new \in {[i \in S |->
                        IF status = "To Initialize"
                        THEN NewToInit(old[i], active_commit)'
                        ELSE NewUpToDate(old[i], active_commit)']} :
          gitter' = Record(Install(g, S, new), Len(commits) + 1)
    /\ tracks' = Deref(gitter')

\* create_stubs, fmt[i] being the outcome of stub_template.format for the
\* track of index i
CreateStubsWith(old, g, S, fmt) ==
    IF \E i \in S : fmt[i].raises # ""
    THEN /\ raised' = fmt[CHOOSE i \in S : fmt[i].raises # ""].raises
         /\ pc' = "generate_failed"
         /\ UNCHANGED <<commits, tracks, gitter>>
    ELSE /\ IF S = {}
            THEN UNCHANGED <<commits, tracks, gitter>>
            ELSE Generate(old, g, S, [i \in S |-> fmt[i].content], "To Initialize")
         /\ pc' = "stubbed"
         /\ UNCHANGED raised

CreateStubsAt(old, g, S, stub_template) ==
    CreateStubsWith(old, g, S,
                    [i \in S |-> StubTemplateFormat(old[i], stub_template)])

CreateStubs(filters, stub_template) ==
    /\ pc = "generate"
    /\ UNCHANGED remote
    /\ \E old \in {tracks} : \E g \in {gitter} :
          \E S \in {Indexes(old, filters)} : CreateStubsAt(old, g, S, stub_template)
    /\ UNCHANGED map

CreateCopiesAt(old, g, S) ==
    IF S = {}
    THEN UNCHANGED <<commits, tracks, gitter>>
    ELSE Generate(old, g, S, [i \in S |-> old[i].original.blob], "Up-To-Date")

CreateCopies(filters) ==
    /\ pc \in {"generate", "stubbed"}
    /\ UNCHANGED remote
    /\ \E old \in {tracks} : \E g \in {gitter} :
          \E S \in {Indexes(old, filters)} : CreateCopiesAt(old, g, S)
    /\ pc' = "copied"
    /\ UNCHANGED <<map, raised>>

\* the revisions the environment commits between the runs of the generator
GenBlobsFor(p) == IF p = Doc THEN {"Doc10", "DocTbi"} ELSE BlobsFor(p)

GenCommit ==
    /\ Len(commits) < MaxGenCommits
    /\ \/ \E path \in Paths : \E blob \in GenBlobsFor(path) : CommitWrite(path, blob)
       \/ \E path \in Paths : CommitDelete(path)

NextGen ==
    \/ \E a \in PutArgs : Put(a)
    \/ Track
    \/ GenCommit
    \/ NewGitUpdater(head)
    \/ \E filters \in FilterSets : \E stub_template \in StubTemplates :
          CreateStubs(filters, stub_template)
    \/ \E filters \in FilterSets : CreateCopies(filters)

SpecGen == Init /\ [][NextGen]_vars

\* the entry of the map a record of the list belongs to
EntryOf(t) ==
    CHOOSE i \in DOMAIN map :
        /\ map[i].translation = t.translation.path
        /\ map[i].lang_tag = t.translation.lang_tag

\* the record of index j was installed by the generator
Installed(j) == gitter.tracks[j] \notin DOMAIN gitter.tracks

\* the outcome r of a classification of the pair is a record of the status
ClassifiedAs(r, status) == r.kind = "track" /\ r.track.status = status

\* C14: after create_stubs or create_copies has committed its files, every
\* record it installed has the status track() assigns to that pair on the
\* history that now ends with the generator's commit.
C14_GeneratorAsFreshPass ==
    pc \in {"stubbed", "copied"} =>
        \A j \in DOMAIN tracks :
            Installed(j) =>
                ClassifiedAs(TrackPair(map[EntryOf(tracks[j])], active_commit),
                             tracks[j].status)

\* C15: the generator never mutates a record: every track object keeps its
\* status, translation and original, and a slot of the list that changes
\* held a To Create record and now refers to an object constructed by the
\* call for the same translation path, language tag and original.
ObjectsKept ==
    \A k \in DOMAIN gitter.heap :
        /\ k \in DOMAIN gitter'.heap
        /\ gitter'.heap[k] = gitter.heap[k]

SlotsReplaced ==
    \A j \in DOMAIN gitter.tracks :
        tracks'[j] # tracks[j] =>
            /\ gitter.heap[gitter.tracks[j]].status = "To Create"
            /\ gitter'.tracks[j] \notin DOMAIN gitter.heap
            /\ tracks'[j].translation.path = tracks[j].translation.path
            /\ tracks'[j].translation.lang_tag = tracks[j].translation.lang_tag
            /\ tracks'[j].original = tracks[j].original

TakesUpdateBranch(e) ==
    TrackPair(e, active_commit).branch = "To Update"

SameAsBase(e) ==
    /\ LastChange(e.translation) # 0
    /\ TreeBlob(LastChange(e.translation), e.original)
          = TreeBlob(LastChange(e.original), e.original)

C16_NoChangeIsEmptyPatch ==
    Ran =>
        \A i \in DOMAIN map :
            (TakesUpdateBranch(map[i]) /\ SameAsBase(map[i]))
                => /\ HasStatus(map[i], "To Update")
                   /\ TrackOf(map[i]).patch
                         = [additions |-> 0, deletions |-> 0, changes |-> 0]

(***************************************************************************)
(* The contents a translation file may hold when track() reads its header  *)
(***************************************************************************)
MaxHdrCommits == 3

HdrBlobsFor(p) ==
    IF p = FrDoc
    THEN {"Doc10", "Stub", "OtherHdr", "BadHdr", "Binary"}
    ELSE BlobsFor(p)

HdrCommit ==
    /\ Len(commits) < MaxHdrCommits
    /\ \E path \in {Doc, FrDoc} : \E blob \in HdrBlobsFor(path) : CommitWrite(path, blob)

NextHdr ==
    \/ \E a \in PutArgs : Put(a)
    \/ Track
    \/ HdrCommit

SpecHdr == Init /\ [][NextHdr]_vars

\* the header block of the content declares the key with the sentinel value
Sentinel(blob) ==
    /\ blob \notin Undecodable
    /\ "tbi" \in FrontMatter(ContentOf(blob).lines)

\* C17: has_tbi_header returns true only for a content whose header holds
\* the key with the sentinel value, and returns false, never raising, for
\* every content that cannot be parsed as a structured header; stated of
\* the translation files track() reads the header of.
HeaderRead(f) ==
    (~f.no_trace /\ ~f.deleted_file) =>
        /\ has_tbi_header(f.blob).raises = ""
        /\ has_tbi_header(f.blob).value => Sentinel(f.blob)

C17_HeaderNeverRaises ==
    /\ \A i \in DOMAIN map :
          HeaderRead(TranslationGitFile(map[i].translation, map[i].lang_tag,
                                        active_commit))
    /\ pc = "track_failed" => raised # "YAMLError"

(***************************************************************************)
(* Assignments to the attributes of the translation file of a record, by   *)
(* any holder of the list track() returned                                 *)
(***************************************************************************)
AttrValues(name) ==
    CASE name = "lang_tag" -> {"fr", "en", UnknownTag}
      [] name = "language" -> {"French", "English"}
      [] name = "new_file" -> BOOLEAN

AttrNames == {"lang_tag", "language", "new_file"}

\* tracks[j].translation.<name> = value, r being what __setattr__ leaves
SetAttrDone(j, r) ==
    /\ tracks' = [tracks EXCEPT ![j].translation = r.file]
    /\ raised' = r.raises

SetAttr(j, name, value) ==
    /\ pc = "tracked"
    /\ j \in DOMAIN tracks
    /\ SetAttrDone(j, setattr(tracks[j].translation, name, value))
    /\ UNCHANGED <<commits, map, pc, gitter>>
    /\ UNCHANGED remote

MaxLangCommits == 2

LangCommit ==
    /\ Len(commits) < MaxLangCommits
    /\ \E path \in Paths : \E blob \in BlobsFor(path) : CommitWrite(path, blob)

NextLang ==
    \/ \E a \in PutCalls : Put(a)
    \/ Track
    \/ LangCommit
    \/ \E j \in 1..Cardinality(TransPaths) : \E name \in AttrNames :
          \E value \in AttrValues(name) : SetAttr(j, name, value)

SpecLang == Init /\ [][NextLang]_vars

\* C18: running track() twice on the same map against the same unchanged
\* active commit yields the same sequence of records.  track() is a
\* function of the map and of the history (the operator track above): two
\* evaluations of it in the same state agree in any model, so the property
\* is not stated as a formula.

\* C19: for every TranslationGitFile, language is the registry name of
\* lang_tag at every moment: no file is constructed with an unknown tag,
\* assigning an unknown tag raises and leaves the file as it was, assigning
\* a known tag updates lang_tag and language together, and assigning
\* language is rejected.
LanguageOfTag ==
    \A j \in DOMAIN tracks :
        /\ tracks[j].translation.lang_tag \in KnownTags
        /\ tracks[j].translation.language = LanguageOf(tracks[j].translation.lang_tag)

NoneConstructedUnknown ==
    pc = "tracked" => \A i \in DOMAIN map : map[i].lang_tag \in KnownTags

Assigned(j, name, value) ==
    /\ (name = "lang_tag" /\ value \notin KnownTags)
          => (raised' = "LanguageTagException" /\ tracks' = tracks)
    /\ (name = "lang_tag" /\ value \in KnownTags)
          => /\ raised' = ""
             /\ tracks'[j].translation.lang_tag = value
             /\ tracks'[j].translation.language = LanguageOf(value)
    /\ name = "language"
          => (raised' = "NotImplementedError" /\ tracks' = tracks)

C19_LanguageFollowsTag ==
    /\ [](LanguageOfTag /\ NoneConstructedUnknown)
    /\ [][\A j \in 1..Cardinality(TransPaths) : \A name \in AttrNames :
            \A value \in AttrValues(name) :
                SetAttr(j, name, value) => Assigned(j, name, value)]_vars

\* a file constructed with the tag fr was assigned the tag en, and a later
\* assignment of an unknown tag was refused
C19_Witness ==
    /\ pc = "tracked"
    /\ raised = "LanguageTagException"
    /\ \E j \in DOMAIN tracks :
          /\ tracks[j].translation.lang_tag = "en"
          /\ tracks[j].translation.language = "English"

\* C20: every patch satisfies changes = additions + deletions with
\* additions >= 0 and deletions >= 0, additions and deletions being the
\* numbers of added and removed lines of the literal diff: their difference
\* is the difference of the line counts of the two contents compared.
PatchOfRecord(t) ==
    /\ t.patch.changes = t.patch.additions + t.patch.deletions
    /\ t.patch.additions >= 0
    /\ t.patch.deletions >= 0
    /\ t.patch.additions - t.patch.deletions
          = Len(DiffLines(TreeBlob(t.original.commit, t.original.path)))
            - Len(DiffLines(TreeBlob(t.base_original.commit, t.original.path)))

C20_PatchCounts ==
    Ran => \A j \in DOMAIN tracks :
               tracks[j].status = "To Update" => PatchOfRecord(tracks[j])

\* a To Update record whose patch counts removed lines
C20_Witness ==
    /\ pc = "tracked"
    /\ \E j \in DOMAIN tracks :
          /\ tracks[j].status = "To Update"
          /\ tracks[j].patch.deletions > 0
          /\ tracks[j].patch.changes > 0

(***************************************************************************)
(* Contents of zero, one and several lines, with and without a terminator  *)
(* after the last line, for the line counts of the records                 *)
(***************************************************************************)
MaxLineCommits == 3

LineBlobsFor(p) ==
    IF p = Doc THEN {"Empty", "OneLine", "TwoNl", "Doc10", "DocTbi"}
    ELSE IF p = FrDoc THEN {"Empty", "OneLine", "TwoNl", "Stub"}
    ELSE BlobsFor(p)

LineCommit ==
    /\ Len(commits) < MaxLineCommits
    /\ \/ \E path \in {Doc, FrDoc} : \E blob \in LineBlobsFor(path) : CommitWrite(path, blob)
       \/ CommitDelete(Doc)

NextLines ==
    \/ \E a \in PutArgs : Put(a)
    \/ Track
    \/ LineCommit

SpecLines == Init /\ [][NextLines]_vars

\* the lines of a content that are followed by a terminator
Terminators(blob) ==
    Cardinality({i \in DOMAIN TermLines(ContentOf(blob)) : TermLines(ContentOf(blob))[i][2]})

\* C21: cnt_lines of a present content is the number of its line
\* terminators plus one (1 for an empty content and for a content without
\* terminator, 3 for a content with two terminators), and missing_lines of
\* To Create and To Initialize records and surplus_lines of Orphan records
\* are that count of the original, respectively of the translation.
LinesOfRecord(t) ==
    /\ t.status \in {"To Create", "To Initialize"}
          => t.missing_lines = Terminators(TreeBlob(t.original.commit, t.original.path)) + 1
    /\ t.status = "Orphan"
          => t.surplus_lines
                = Terminators(TreeBlob(t.translation.commit, t.translation.path)) + 1

C21_LineCounts ==
    /\ Terminators("Empty") = 0 /\ Terminators("OneLine") = 0 /\ Terminators("TwoNl") = 2
    /\ pc = "tracked" => \A j \in DOMAIN tracks : LinesOfRecord(tracks[j])

\* a To Create record counting the single line of an empty original
C21_Witness ==
    /\ pc = "tracked"
    /\ \E j \in DOMAIN tracks :
          /\ tracks[j].status = "To Create"
          /\ TreeBlob(tracks[j].original.commit, tracks[j].original.path) = "Empty"
          /\ tracks[j].missing_lines = 1

\* C22: after create_stubs every track that was To Create and whose
\* translation filename matches one of the filters is a To Initialize track
\* at the same index for the same translation path, language tag and
\* original; every other track is unchanged at its index; the length of the
\* list is unchanged; exactly one commit is recorded when at least one track
\* matched, none otherwise.
StubbedAt(j) ==
    /\ tracks'[j].status = "To Initialize"
    /\ tracks'[j].translation.path = tracks[j].translation.path
    /\ tracks'[j].translation.lang_tag = tracks[j].translation.lang_tag
    /\ tracks'[j].original = tracks[j].original

StubsCreated(S) ==
    /\ Len(tracks') = Len(tracks)
    /\ \A j \in DOMAIN tracks : IF j \in S THEN StubbedAt(j) ELSE tracks'[j] = tracks[j]
    /\ Len(gitter'.commits) = Len(gitter.commits) + (IF S = {} THEN 0 ELSE 1)

C22_CreateStubs ==
    [][\A filters \in FilterSets : \A stub_template \in StubTemplates :
          CreateStubs(filters, stub_template) => StubsCreated(Indexes(tracks, filters))]_vars

\* C29: in a run with stub generation and copy generation both enabled the
\* stubs are generated before the copies and each translation path is
\* written at most once: a To Create track whose filename matches the stub
\* filters gets a stub and ends as To Initialize before create_copies runs,
\* and create_copies replaces only tracks that are still To Create and were
\* not written by create_stubs.
StubbedFirst(S) ==
    /\ pc' = "stubbed"
    /\ \A j \in S : tracks'[j].status = "To Initialize"

CopiedOnce ==
    \A j \in DOMAIN tracks :
        tracks'[j] # tracks[j] => (tracks[j].status = "To Create" /\ ~Installed(j))

C29_StubsBeforeCopies ==
    [][/\ \A filters \in FilterSets : \A stub_template \in StubTemplates :
             CreateStubs(filters, stub_template) => StubbedFirst(Indexes(tracks, filters))
       /\ \A filters \in FilterSets : CreateCopies(filters) => CopiedOnce
       /\ pc = "copied" => pc' \notin {"stubbed", "generate_failed"}]_vars

\* C27: whenever track() takes the To Update branch for a pair, the
\* original (under its rename-source name when its last change was a
\* rename) has a trace at the translation's last-change revision:
\* base_original has a commit and a content.
PresentWithContent(f) ==
    /\ ~f.no_trace
    /\ ~f.deleted_file
    /\ f.commit # 0
    /\ f.blob # NoBlob

BaseOriginalPresent(original, translation) ==
    PresentWithContent(
        GitFile(IF original.renamed_file THEN original.rename_from ELSE original.path,
                translation.commit))

C27_BaseOriginalPresent ==
    Ran =>
        \A i \in DOMAIN map :
            TakesUpdateBranch(map[i]) =>
                BaseOriginalPresent(
                    GitFile(map[i].original, active_commit),
                    TranslationGitFile(map[i].translation, map[i].lang_tag, active_commit))

\* C28: track() never takes the Orphan branch for a pair whose translation
\* has no trace or was deleted by its last change: the translation of every
\* pair that takes the branch is present with content, so surplus_lines is
\* defined.
TakesOrphanBranch(e) ==
    TrackPair(e, active_commit).branch = "Orphan"

C28_OrphanTranslationPresent ==
    Ran =>
        \A i \in DOMAIN map :
            TakesOrphanBranch(map[i]) =>
                PresentWithContent(
                    TranslationGitFile(map[i].translation, map[i].lang_tag, active_commit))

(***************************************************************************)
(* GitUpdater.finish: the push, the checkout of the starting branch and    *)
(* the pull request.  A pull request is [number, head, base]; github.pulls *)
(* holds the open ones.                                                    *)
(***************************************************************************)
MaxFinCommits == 3

\* the numbers GitHub gives before the maintainers stop closing pull requests
MaxNumber == 2

GenBranch == "wut"
Branches == {Master, GenBranch}

\* a lookup that finds no pull request
get_pulls_none(pulls, head_pr, base_pr) ==
    <<>>

\* pull_request.get_pulls(state="open", head=head_pr, base=base_pr)
get_pulls(pulls, head_pr, base_pr) ==
    SelectSeq(pulls, LAMBDA p : p.head = head_pr /\ p.base = base_pr)

\* origin.push(refspec) when the updater recorded a commit
Pushes(g, head_name) ==
    IF Len(g.commits) > 0 THEN <<[api |-> "push", ref |-> head_name]>> ELSE <<>>

\* the pull request part of finish, prs being the open pull requests found
FinishPull(head_name, base_pr, pushed, prs) ==
    IF prs = <<>>
    THEN /\ github' = [github EXCEPT
                          !.number = @ + 1,
                          !.pulls = Append(@, [number |-> github.number + 1,
                                               head |-> head_name, base |-> base_pr])]
         /\ calls' = calls \o pushed
                        \o <<[api |-> "get_pulls", ref |-> head_name],
                             [api |-> "create_pull", ref |-> head_name]>>
         /\ ret' = <<github.number + 1>>
    ELSE /\ UNCHANGED github
         /\ calls' = calls \o pushed \o <<[api |-> "get_pulls", ref |-> head_name]>>
         /\ ret' = <<prs[1].number>>

FinishOn(g, head_name, pull_request) ==
    IF g.starting_branch # head_name
    THEN /\ head' = g.starting_branch
         /\ commits' = SubSeq(commits, 1, g.base)
         /\ IF pull_request /\ Len(g.commits) > 0
            THEN FinishPull(head_name, g.starting_branch, Pushes(g, head_name),
                            get_pulls(github.pulls, head_name, g.starting_branch))
            ELSE /\ calls' = calls \o Pushes(g, head_name)
                 /\ ret' = <<>>
                 /\ UNCHANGED github
    ELSE /\ calls' = calls \o Pushes(g, head_name)
         /\ ret' = <<>>
         /\ UNCHANGED <<head, commits, github>>

\* gitter.finish(force_push=True), with pull_request=args.github_repo when
\* a merge is requested
Finish(pull_request) ==
    /\ pc \in {"generate", "stubbed", "copied"}
    /\ FinishOn(gitter, head, pull_request)
    /\ pc' = "finished"
    /\ UNCHANGED <<map, tracks, raised, gitter>>

\* a maintainer merges or closes an open pull request
ClosePull(k) ==
    /\ k \in DOMAIN github.pulls
    /\ github.number < MaxNumber
    /\ github' = [github EXCEPT
                     !.pulls = SubSeq(@, 1, k - 1) \o SubSeq(@, k + 1, Len(@))]
    /\ UNCHANGED <<commits, map, tracks, raised, pc, gitter, head, calls, ret>>

FinCommit ==
    /\ Len(commits) < MaxFinCommits
    /\ \E path \in Paths : \E blob \in BlobsFor(path) : CommitWrite(path, blob)

NextFinish ==
    \/ \E a \in PutArgs : Put(a)
    \/ Track
    \/ FinCommit
    \/ \E branch_name \in Branches : NewGitUpdater(branch_name)
    \/ \E filters \in FilterSets : \E stub_template \in StubTemplates :
          CreateStubs(filters, stub_template)
    \/ \E filters \in FilterSets : CreateCopies(filters)
    \/ \E pull_request \in BOOLEAN : Finish(pull_request)
    \/ \E k \in 1..MaxNumber : ClosePull(k)

SpecFinish == Init /\ [][NextFinish]_vars

\* C25: finish pushes only when this updater recorded at least one commit,
\* always leaves the active branch equal to the starting branch, and creates
\* a pull request only when the generation branch differs from the starting
\* branch, a GitHub repository was supplied, at least one commit was
\* recorded and no open pull request with the same head and base exists; no
\* two open pull requests ever have the same head and base.
NoTwoPulls ==
    \A k, l \in DOMAIN github.pulls :
        (github.pulls[k].head = github.pulls[l].head
            /\ github.pulls[k].base = github.pulls[l].base) => k = l

Sent(api) ==
    \E n \in Len(calls) + 1..Len(calls') : calls'[n].api = api

PullExists(head_pr, base_pr) ==
    \E k \in DOMAIN github.pulls :
        github.pulls[k].head = head_pr /\ github.pulls[k].base = base_pr

Finished(pull_request) ==
    /\ head' = gitter.starting_branch
    /\ Sent("push") => Len(gitter.commits) > 0
    /\ Sent("create_pull") <=> github'.pulls # github.pulls
    /\ Sent("create_pull") =>
          /\ head # gitter.starting_branch
          /\ pull_request
          /\ Len(gitter.commits) > 0
          /\ ~PullExists(head, gitter.starting_branch)

C25_Finish ==
    /\ []NoTwoPulls
    /\ [][\A pull_request \in BOOLEAN : Finish(pull_request) => Finished(pull_request)]_vars

\* a later run pushed its commits and found the pull request of an earlier
\* run open
C25_Witness ==
    /\ pc = "finished"
    /\ Len(github.pulls) = 1
    /\ ret = <<github.pulls[1].number>>
    /\ Len(calls) = 2
    /\ calls[1].api = "push"
    /\ calls[2].api = "get_pulls"

(***************************************************************************)
(* IssuesInstructor.  An issue is [title, body, labels, state], its number *)
(* being its index in github.issues.  A title is the pair of the status    *)
(* part and the path part the title template formats to; a body is the     *)
(* name of the status whose template it was formatted from.                *)
(***************************************************************************)
MaxIssueCommits == 3

\* the issues other people may open before the instructor creates its own
MaxIssues == 2

BotLabel == "translation-update"

Statuses == {"To Create", "To Initialize", "To Update", "Up-To-Date", "Orphan"}

\* self.issue_policies
issue_policies(status) ==
    CASE status = "To Create" -> [label |-> "translation:new", state |-> "open"]
      [] status = "To Initialize" -> [label |-> "translation:new", state |-> "open"]
      [] status = "To Update" -> [label |-> "translation:update", state |-> "open"]
      [] status = "Up-To-Date" -> [label |-> "translation:ok", state |-> "closed"]
      [] status = "Orphan" -> [label |-> "translation:orphan", state |-> "open"]

\* the title templates: '{t.translation.path}', a key unique to the track
TitleTemplates == {"path"}

\* the statuses a body template is given for
BodyTemplaters == {Statuses, Statuses \ {"Up-To-Date"}}

IssueFilters == {Filenames, {Name(FrDoc)}}

IssueArgs ==
    [filters : IssueFilters, title : TitleTemplates, body_templater : BodyTemplaters]

\* self.title.format(track, self.repo)
TitleOf(t, title_template) ==
    <<IF title_template = "path" THEN "" ELSE t.status, t.translation.path>>

\* the tracks whose translation filename matches one of the filters
Subtracks(tr, filters) ==
    SelectSeq(tr, LAMBDA t : Name(t.translation.path) \in filters)

\* a listing of the open issues only
get_issues_open(issues, label) ==
    {i \in DOMAIN issues : label \in issues[i].labels /\ issues[i].state = "open"}

\* self.repo.get_issues(state="all", labels=[self.label])
get_issues(issues, label) ==
    {i \in DOMAIN issues : label \in issues[i].labels}

\* a duplicate that is labelled and left in its state
DuplicateLabelled(issue) ==
    [issue EXCEPT !.labels = {"duplicate"}]

\* duplicate.edit(labels=["duplicate"], state="closed")
DuplicateEdited(issue) ==
    [issue EXCEPT !.labels = {"duplicate"}, !.state = "closed"]

\* repo.create_issue(title, body, labels), then issue.edit(state) if closed
Created(st, new) ==
    [issues |-> Append(st.issues, new),
     ret |-> IF new.state = "open" THEN Append(st.ret, Len(st.issues) + 1) ELSE st.ret]

\* the duplicates M are marked and the issue k is edited to new
Updated(st, M, k, new) ==
    [issues |-> [i \in DOMAIN st.issues |->
                    IF i = k THEN new
                    ELSE IF i \in M THEN DuplicateEdited(st.issues[i])
                    ELSE st.issues[i]],
     ret |-> IF new.state = "open" THEN Append(st.ret, k) ELSE st.ret]

\* the body of the loop of instruct for one track, M being the fetched
\* issues that have the title of the track, the newest first
InstructFound(st, M, new) ==
    IF M = {} THEN Created(st, new) ELSE Updated(st, M, SetMax(M), new)

InstructTrack(st, fetched, t, args) ==
    IF t.status \notin args.body_templater
    THEN st
    ELSE InstructFound(
             st,
             {i \in fetched : st.issues[i].title = TitleOf(t, args.title)},
             [title |-> TitleOf(t, args.title),
              body |-> t.status,
              labels |-> {BotLabel, issue_policies(t.status).label},
              state |-> issue_policies(t.status).state])

RECURSIVE InstructLoop(_, _, _, _)
InstructLoop(sub, st, fetched, args) ==
    IF sub = <<>>
    THEN st
    ELSE InstructLoop(Tail(sub), InstructTrack(st, fetched, Head(sub), args), fetched, args)

\* IssuesInstructor.instruct: [issues |-> the issues left, ret |-> the list returned]
instruct(issues, tr, args) ==
    InstructLoop(Subtracks(tr, args.filters), [issues |-> issues, ret |-> <<>>],
                 get_issues(issues, BotLabel), args)

Instructable == {"tracked", "finished", "instructed", "instructed_again"}

\* the instructor has run with these arguments since the last change
InstructedWith(args) ==
    /\ pc \in {"instructed", "instructed_again"}
    /\ ret.args = args

\* issuer.instruct(filters) in main.py; a run that follows a run on the same
\* revision gets the same tracks
IssuesInstruct(args) ==
    /\ pc \in Instructable
    /\ \E r \in {instruct(github.issues, tracks, args)} :
          /\ github' = [github EXCEPT !.issues = r.issues]
          /\ ret' = [args |-> args, value |-> r.ret]
    /\ pc' = IF InstructedWith(args) THEN "instructed_again" ELSE "instructed"
    /\ UNCHANGED <<commits, map, tracks, raised, gitter, head, calls>>

\* somebody opens an issue holding the label of the instructor
ForeignIssue(title, state) ==
    /\ pc \notin {"instructed", "instructed_again"}
    /\ Len(github.issues) < MaxIssues
    /\ github' = [github EXCEPT
                     !.issues = Append(@, [title |-> title, body |-> "foreign",
                                           labels |-> {BotLabel}, state |-> state])]
    /\ UNCHANGED <<commits, map, tracks, raised, pc, gitter, head, calls, ret>>

IssueCommit ==
    /\ Len(commits) < MaxIssueCommits
    /\ \E path \in {Doc, FrDoc} : \E blob \in BlobsFor(path) : CommitWrite(path, blob)

IssueTitles == {<<"", FrDoc>>}

NextIssues ==
    \/ \E a \in PutArgs : Put(a)
    \/ Track
    \/ IssueCommit
    \/ \E args \in IssueArgs : IssuesInstruct(args)
    \/ \E title \in IssueTitles : \E state \in {"open", "closed"} : ForeignIssue(title, state)

SpecIssues == Init /\ [][NextIssues]_vars

\* the tracks instruct updates an issue for
Instructed(args) ==
    {j \in DOMAIN tracks :
        /\ Name(tracks[j].translation.path) \in args.filters
        /\ tracks[j].status \in args.body_templater}

\* the issues with the label and the title that the call left unmarked
Kept(title) ==
    {i \in DOMAIN github'.issues :
        /\ BotLabel \in github'.issues[i].labels
        /\ github'.issues[i].title = title
        /\ "duplicate" \notin github'.issues[i].labels}

\* the issues that had the label and the title before the call
Had(title) ==
    {i \in DOMAIN github.issues :
        BotLabel \in github.issues[i].labels /\ github.issues[i].title = title}

OneIssueLeft(t, title) ==
    /\ Cardinality(Kept(title)) = 1
    /\ \A i \in Kept(title) :
          /\ issue_policies(t.status).label \in github'.issues[i].labels
          /\ github'.issues[i].state = issue_policies(t.status).state
          /\ (github'.issues[i].state = "closed") <=> (t.status = "Up-To-Date")
    /\ \A i \in Had(title) \ Kept(title) :
          /\ github'.issues[i].state = "closed"
          /\ "duplicate" \in github'.issues[i].labels

OpenLeft(args) ==
    UNION {Kept(TitleOf(tracks[j], args.title)) :
              j \in {j \in Instructed(args) : tracks[j].status # "Up-To-Date"}}

\* C24: after IssuesInstructor.instruct, for each instructed track whose
\* status has a body template exactly one issue with the instructor's label
\* and the track's title is left not marked duplicate; it carries the label
\* and the state of the status's policy (closed iff Up-To-Date); every other
\* issue that had the label and the title is closed and labelled duplicate;
\* the returned list holds exactly the numbers of the issues left open.
IssuesLeft(args) ==
    /\ \A j \in Instructed(args) :
          OneIssueLeft(tracks[j], TitleOf(tracks[j], args.title))
    /\ {ret'.value[n] : n \in DOMAIN ret'.value} = OpenLeft(args)
    /\ Len(ret'.value) = Cardinality(OpenLeft(args))

C24_IssuesLeft ==
    [][\A args \in IssueArgs : IssuesInstruct(args) => IssuesLeft(args)]_vars

\* a call closed a duplicate and returned the number of the issue it kept
C24_Witness ==
    /\ pc = "instructed"
    /\ ret.value # <<>>
    /\ \E i \in DOMAIN github.issues :
          github.issues[i].labels = {"duplicate"} /\ github.issues[i].state = "closed"
    /\ \E i \in DOMAIN github.issues :
          BotLabel \in github.issues[i].labels /\ github.issues[i].body # "foreign"

\* C30: a second run of IssuesInstructor.instruct with the same tracks,
\* templates and filters against the issues the first run left creates no
\* issue and changes no issue's title, body, labels or state.
C30_InstructIdempotent ==
    [][\A args \in IssueArgs :
          (IssuesInstruct(args) /\ InstructedWith(args))
              => (github'.issues = github.issues /\ ret'.value = ret.value)]_vars

\* the second run found the closed issue the first run made for an
\* Up-To-Date track
C30_Witness ==
    /\ pc = "instructed_again"
    /\ \E i \in DOMAIN github.issues :
          /\ github.issues[i].body = "Up-To-Date"
          /\ github.issues[i].state = "closed"
          /\ BotLabel \in github.issues[i].labels

(***************************************************************************)
(* ProjectsInstructor.  All tracks have the same language, hence the same  *)
(* project.  A column is its name; a card is [column, key, text,           *)
(* archived], its id being its index in github.cards, key the translation  *)
(* path its note contains (<<>> if none) and text the rest of the note.    *)
(***************************************************************************)
MaxCardCommits == 3

\* the cards a project may hold before the instructor stops being run
MaxCards == 2

\* the default column templates of main.py
column_templater(status) ==
    IF status = "Orphan" THEN "Orphans" ELSE status

StatusColumns == {column_templater(status) : status \in Statuses}

\* a column made by the users of the project
UserColumn == "Backlog"

\* the statuses a card template is given for
CardTemplaters == {Statuses, Statuses \ {"To Create"}}

ProjectArgs == [filters : IssueFilters, card_templater : CardTemplaters]

\* every unarchived card is archived
ArchivedAll(st) ==
    [i \in DOMAIN st.cards |-> [st.cards[i] EXCEPT !.archived = TRUE]]

\* the last loop of instruct: the cached cards that were not processed
Archived(st) ==
    [i \in DOMAIN st.cards |->
        IF st.cards[i].column \in st.seen /\ i \notin st.processed
        THEN [st.cards[i] EXCEPT !.archived = TRUE]
        ELSE st.cards[i]]

\* the end of update_card, M being the cached cards of the column whose
\* note contains the key
CardFound(st, M, column, new) ==
    IF M = {}
    THEN [cards |-> Append(st.cards, new),
          seen |-> st.seen \cup {column},
          processed |-> st.processed \cup {Len(st.cards) + 1}]
    ELSE [cards |-> [st.cards EXCEPT ![CHOOSE i \in M : \A k \in M : i <= k] = new],
          seen |-> st.seen \cup {column},
          processed |-> st.processed \cup {CHOOSE i \in M : \A k \in M : i <= k}]

\* ProjectsInstructor.update_card(column, key, note)
update_card(st, column, key, note) ==
    CardFound(st,
              {i \in DOMAIN st.cards :
                  /\ st.cards[i].column = column
                  /\ ~st.cards[i].archived
                  /\ st.cards[i].key = key},
              column,
              [column |-> column, key |-> key, text |-> note, archived |-> FALSE])

ProjectTrack(st, t, args) ==
    IF t.status \notin args.card_templater
    THEN st
    ELSE update_card(st, column_templater(t.status), t.translation.path, t.status)

RECURSIVE ProjectLoop(_, _, _)
ProjectLoop(sub, st, args) ==
    IF sub = <<>>
    THEN st
    ELSE ProjectLoop(Tail(sub), ProjectTrack(st, Head(sub), args), args)

\* ProjectsInstructor.instruct: the cards it leaves
project_instruct(cards, tr, args) ==
    Archived(ProjectLoop(Subtracks(tr, args.filters),
                         [cards |-> cards, seen |-> {}, processed |-> {}], args))

\* projector.instruct(filters) in main.py
ProjectsInstruct(args) ==
    /\ pc \in Instructable
    /\ Len(github.cards) < MaxCards + 2
    /\ github' = [github EXCEPT !.cards = project_instruct(github.cards, tracks, args)]
    /\ ret' = <<>>
    /\ pc' = "instructed"
    /\ UNCHANGED <<commits, map, tracks, raised, gitter, head, calls>>

\* a user of the project adds a card to a column
UserCard(column, key) ==
    /\ Len(github.cards) < MaxCards
    /\ github' = [github EXCEPT
                     !.cards = Append(@, [column |-> column, key |-> key,
                                          text |-> "user", archived |-> FALSE])]
    /\ UNCHANGED <<commits, map, tracks, raised, pc, gitter, head, calls, ret>>

CardCommit ==
    /\ Len(commits) < MaxCardCommits
    /\ \E path \in {Doc, FrDoc} : \E blob \in BlobsFor(path) : CommitWrite(path, blob)

UserCardColumns == {"To Create", UserColumn}

NextProjects ==
    \/ \E a \in PutArgs : Put(a)
    \/ Track
    \/ CardCommit
    \/ \E args \in ProjectArgs : ProjectsInstruct(args)
    \/ \E column \in UserCardColumns : \E key \in {<<>>, FrDoc} : UserCard(column, key)

SpecProjects == Init /\ [][NextProjects]_vars

\* the tracks instruct updates a card for
Carded(args) ==
    {j \in DOMAIN tracks :
        /\ Name(tracks[j].translation.path) \in args.filters
        /\ tracks[j].status \in args.card_templater}

\* the unarchived cards of the status columns whose note contains the path
CardsOf(path) ==
    {i \in DOMAIN github'.cards :
        /\ ~github'.cards[i].archived
        /\ github'.cards[i].key = path
        /\ github'.cards[i].column \in StatusColumns}

\* C23: after ProjectsInstructor.instruct there is, for every instructed
\* translation path, exactly one unarchived card whose note contains the
\* path among the status columns of the project, and it is in the column of
\* the current status of the track, also when the status changed since the
\* previous run.
OneCardLeft(t) ==
    /\ Cardinality(CardsOf(t.translation.path)) = 1
    /\ \A i \in CardsOf(t.translation.path) :
          github'.cards[i].column = column_templater(t.status)

C23_OneCardPerTranslation ==
    [][\A args \in ProjectArgs :
          ProjectsInstruct(args) => \A j \in Carded(args) : OneCardLeft(tracks[j])]_vars

\* C26: instruct archives every unarchived card of a seen column that was
\* not matched to a track during the run, and never edits, moves or
\* archives a card of a column no instructed track was mapped to.
SeenColumns(args) ==
    {column_templater(tracks[j].status) : j \in Carded(args)}

Matched(i, args) ==
    \E j \in Carded(args) :
        /\ github.cards[i].column = column_templater(tracks[j].status)
        /\ github.cards[i].key = tracks[j].translation.path
        /\ \A k \in 1..(i - 1) :
              ~(/\ github.cards[k].column = github.cards[i].column
                /\ github.cards[k].key = github.cards[i].key
                /\ ~github.cards[k].archived)

CardsSwept(args) ==
    /\ Len(github'.cards) >= Len(github.cards)
    /\ \A i \in DOMAIN github.cards :
          IF github.cards[i].column \notin SeenColumns(args)
          THEN github'.cards[i] = github.cards[i]
          ELSE (~github.cards[i].archived /\ ~Matched(i, args))
                  => github'.cards[i] = [github.cards[i] EXCEPT !.archived = TRUE]

C26_UnseenColumnsUntouched ==
    [][\A args \in ProjectArgs : ProjectsInstruct(args) => CardsSwept(args)]_vars

\* a run archived a user's card in a seen column and left a user's card in
\* another column as it was
C26_Witness ==
    /\ pc = "instructed"
    /\ \E i \in DOMAIN github.cards :
          github.cards[i].text = "user" /\ github.cards[i].archived
    /\ \E i \in DOMAIN github.cards :
          github.cards[i].text = "user" /\ ~github.cards[i].archived
    /\ \E i \in DOMAIN github.cards :
          github.cards[i].text # "user" /\ ~github.cards[i].archived

====
